---- MODULE Spec2Model ----
(***************************************************************************)
(* dfixxer pre-commit hook (src/dfixxer_hook.py).                          *)
(*                                                                         *)
(* Strings that the code takes apart (startswith / endswith / equality)    *)
(* are sequences of string pieces: "dfixxer-linux-x86_64.zip" is           *)
(* <<"dfixxer-", "linux", "-", "x86_64", ".zip">>.  None and the empty     *)
(* string are the empty sequence <<>> (both are falsy in the code).        *)
(***************************************************************************)
EXTENDS Integers, Sequences, FiniteSets, TLC

VARIABLES
    \* ---- one hook invocation per process (main / run_dfixxer / ...) ----
    pc,            \* position of each invocation in the code
    files,         \* args.filenames
    idx,           \* number of filenames the for loop of main has taken
    retval,        \* main's retval
    results,       \* what run_dfixxer returned, one entry per finished call
    attempted,     \* the filenames run_dfixxer was called with, in call order
    paths,         \* what get_dfixxer_path returned, one entry per finished call
    dfixxer_path,  \* run_dfixxer's local: result of the current get_dfixxer_path
    probe_rc,      \* outcome of the current call's `dfixxer --version` probe
    asset,         \* (download_url, asset_name, is_zip) of download_dfixxer
    probes,        \* number of `dfixxer --version` probes in this run
    fetches,       \* number of release-metadata fetches (urlopen) in this run
    downloads,     \* number of urlretrieve calls in this run
    callNet,       \* network calls made by the current get_dfixxer_path call
    cacheTouched,  \* the current get_dfixxer_path call reached get_cache_dir
    cacheAtCall,   \* the cache as it was when the current call began
    \* ---- the host and the shared cache directory ----
    platform_system,  \* platform.system().lower()
    cacheDir,      \* ~/.cache/dfixxer-pre-commit/<tag> exists
    binFile,       \* the file at cache_dir / binary_name
    archives,      \* the .zip files in the cache directory: name -> content
    \* ---- what the invocations meet outside themselves ----
    served,        \* the release object and archive the release host serves
    env,           \* the outcomes the host allows: of the probe, of the binary
    \* ---- find_download_asset applied as a pure function ----
    apc, release_data, fda_platform, fda_result

vars == <<pc, files, idx, retval, results, attempted, paths, dfixxer_path,
          probe_rc, asset, probes, fetches, downloads, callNet, cacheTouched,
          cacheAtCall, platform_system, cacheDir, binFile, archives,
          served, env, apc, release_data, fda_platform, fda_result>>

procVars == <<pc, files, idx, retval, results, attempted, paths, dfixxer_path,
              probe_rc, asset, probes, fetches, downloads, callNet,
              cacheTouched, cacheAtCall, platform_system, cacheDir, binFile,
              archives, served, env>>

assetVars == <<apc, release_data, fda_platform, fda_result>>

----------------------------------------------------------------------------
\* Bounds of the model.
MaxFiles == 2
MaxAssets == 3
MaxRaceFiles == 2

Procs == {1, 2}
\* The filenames pre-commit passes, in the order it passes them.
AllFiles == <<"a.pas", "b.pas", "c.pas", "d.pas">>

None == << >>

DFIXXER_RELEASE_TAG == "v0.9.2"

----------------------------------------------------------------------------
\* String helpers (str.startswith, str.endswith, str.lower, Path.name).

startswith(s, prefix) ==
    /\ Len(s) >= Len(prefix)
    /\ SubSeq(s, 1, Len(prefix)) = prefix

endswith(s, suffix) ==
    /\ Len(s) >= Len(suffix)
    /\ SubSeq(s, Len(s) - Len(suffix) + 1, Len(s)) = suffix

lower(s) ==
    CASE s = "DFIXXER" -> "dfixxer"
      [] s = "Dfixxer.exe" -> "dfixxer.exe"
      [] s = "README.md" -> "readme.md"
      [] OTHER -> s

\* Path(item.filename).name: the last component of the entry's path.
PathName(filename) == IF filename = << >> THEN "" ELSE filename[Len(filename)]

----------------------------------------------------------------------------
\* get_platform_info, get_binary_name, get_cache_dir.

SupportedSystems == {"windows", "darwin", "linux"}
Systems == SupportedSystems \cup {"freebsd"}

\* The platform name get_platform_info returns; on any other system it raises
\* RuntimeError (line 38), which GetPlatformInfo models.
platform_name_of(system) ==
    CASE system = "windows" -> "windows"
      [] system = "darwin" -> "macos"
      [] system = "linux" -> "linux"
      [] OTHER -> "unsupported"

get_platform_info(system) == <<platform_name_of(system), "x86_64">>

get_binary_name(platform_name) ==
    IF platform_name = "windows" THEN "dfixxer.exe" ELSE "dfixxer"

cache_dir == <<"~", ".cache", "dfixxer-pre-commit", DFIXXER_RELEASE_TAG>>

binary_path(platform_name) == cache_dir \o <<get_binary_name(platform_name)>>

----------------------------------------------------------------------------
\* find_download_asset.  An asset is [name, browser_download_url]; a missing
\* key is None.  The result is the tuple (download_url, asset_name, is_zip).

AssetResult(url, name, is_zip) ==
    [download_url |-> url, asset_name |-> name, is_zip |-> is_zip]

NoAsset == AssetResult(None, None, FALSE)

base_name_of(platform_name, arch) == <<"dfixxer-", platform_name, "-", arch>>

binary_asset_names(platform_name, arch) ==
    LET base_name == base_name_of(platform_name, arch) IN
    IF platform_name = "windows"
    THEN << base_name \o <<".exe">>,
            base_name \o <<"-", DFIXXER_RELEASE_TAG, ".exe">> >>
    ELSE << base_name,
            base_name \o <<"-", DFIXXER_RELEASE_TAG>> >>

zip_asset_names(platform_name, arch) ==
    LET base_name == base_name_of(platform_name, arch) IN
    << base_name \o <<"-", DFIXXER_RELEASE_TAG, ".zip">>,
       base_name \o <<".zip">> >>

preferred_names(platform_name, arch) ==
    binary_asset_names(platform_name, arch) \o zip_asset_names(platform_name, arch)

\* The inner loop of lines 64-66: the first asset named expected_name, or 0.
RECURSIVE FirstNamed(_, _, _)
FirstNamed(assets, expected_name, i) ==
    IF i > Len(assets) THEN 0
    ELSE IF assets[i].name = expected_name THEN i
    ELSE FirstNamed(assets, expected_name, i + 1)

\* The outer loop of lines 63-66 from the k-th preferred name on.
RECURSIVE PreferredMatch(_, _, _)
PreferredMatch(assets, names, k) ==
    IF k > Len(names) THEN <<0, 0>>
    ELSE LET i == FirstNamed(assets, names[k], 1) IN
         IF i # 0 THEN <<k, i>> ELSE PreferredMatch(assets, names, k + 1)

\* The loop of lines 68-71: the first asset base_name*.zip, or 0.
RECURSIVE FallbackMatch(_, _, _)
FallbackMatch(assets, base_name, i) ==
    IF i > Len(assets) THEN 0
    ELSE IF startswith(assets[i].name, base_name) /\ endswith(assets[i].name, <<".zip">>)
         THEN i
    ELSE FallbackMatch(assets, base_name, i + 1)

\* A plausible slip: the loops nested the other way round, so that the first
\* asset of the list carrying any preferred name wins.
find_download_asset_by_list_order(rd, platform_name, arch) ==
    LET assets == rd.assets
        names == preferred_names(platform_name, arch)
        hits == {i \in 1..Len(assets) : \E k \in 1..Len(names) : assets[i].name = names[k]}
        fb == FallbackMatch(assets, base_name_of(platform_name, arch), 1)
    IN  IF hits # {}
        THEN LET i == CHOOSE j \in hits : \A h \in hits : j <= h IN
             AssetResult(assets[i].browser_download_url, assets[i].name,
                         endswith(assets[i].name, <<".zip">>))
        ELSE IF fb # 0
        THEN AssetResult(assets[fb].browser_download_url, assets[fb].name, TRUE)
        ELSE NoAsset

find_download_asset(rd, platform_name, arch) ==
    LET assets == rd.assets
        names == preferred_names(platform_name, arch)
        m == PreferredMatch(assets, names, 1)
        fb == FallbackMatch(assets, base_name_of(platform_name, arch), 1)
    IN  IF m[1] # 0
        THEN AssetResult(assets[m[2]].browser_download_url, names[m[1]],
                         endswith(names[m[1]], <<".zip">>))
        ELSE IF fb # 0
        THEN AssetResult(assets[fb].browser_download_url, assets[fb].name, TRUE)
        ELSE NoAsset

\* Release assets the hosting API may list for a platform.
UrlOf(name) == <<"https://github.com/tuncb/dfixxer/releases/download/">> \o name

Asset(name) == [name |-> name, browser_download_url |-> UrlOf(name)]

AssetPool(platform_name) ==
    LET base_name == base_name_of(platform_name, "x86_64") IN
    { Asset(base_name),
      Asset(base_name \o <<"-", DFIXXER_RELEASE_TAG>>),
      Asset(base_name \o <<".exe">>),
      Asset(base_name \o <<"-", DFIXXER_RELEASE_TAG, ".exe">>),
      Asset(base_name \o <<"-", DFIXXER_RELEASE_TAG, ".zip">>),
      Asset(base_name \o <<".zip">>),
      Asset(base_name \o <<"-musl", ".zip">>),
      Asset(<<"checksums.txt">>),
      [name |-> base_name \o <<".zip">>, browser_download_url |-> None],
      [name |-> None, browser_download_url |-> UrlOf(<<"unnamed">>)] }

RECURSIVE SeqsUpTo(_, _)
SeqsUpTo(S, n) ==
    IF n = 0 THEN { << >> }
    ELSE LET shorter == SeqsUpTo(S, n - 1) IN
         shorter \cup { Append(s, x) : s \in shorter, x \in S }

\* The release objects the metadata endpoint answers with in a hook run.
Releases(platform_name) ==
    LET base_name == base_name_of(platform_name, "x86_64")
        bin == Asset(binary_asset_names(platform_name, "x86_64")[1])
        tagzip == Asset(base_name \o <<"-", DFIXXER_RELEASE_TAG, ".zip">>)
        muslzip == Asset(base_name \o <<"-musl", ".zip">>)
    IN  { [assets |-> << >>],
          [assets |-> <<tagzip, bin>>],
          [assets |-> <<Asset(<<"checksums.txt">>), muslzip>>],
          [assets |-> <<[name |-> base_name \o <<".zip">>, browser_download_url |-> None]>>] }

----------------------------------------------------------------------------
\* extract_binary_from_zip.  A downloaded archive file is [valid, infolist]:
\* whether zipfile.ZipFile can open it, and its entries [filename, is_dir].

Entry(filename, is_dir) == [filename |-> filename, is_dir |-> is_dir]

ZipFile(infolist) == [valid |-> TRUE, infolist |-> infolist]

Truncated == [valid |-> FALSE, infolist |-> << >>]

ZipContents ==
    { ZipFile(<< >>),
      ZipFile(<< Entry(<<"README.md">>, FALSE) >>),
      ZipFile(<< Entry(<<"dfixxer">>, TRUE), Entry(<<"dfixxer", "DFIXXER">>, FALSE) >>),
      ZipFile(<< Entry(<<"Dfixxer.exe">>, FALSE) >>) }

\* matches of lines 79-83.
zip_matches(infolist, binary_name) ==
    SelectSeq(infolist,
              LAMBDA item : ~item.is_dir
                            /\ lower(PathName(item.filename)) = lower(binary_name))

----------------------------------------------------------------------------
\* Decisions of the code, one operator each.

\* A plausible slip: the file's code is passed on as the run's result.
main_retval_verbatim(rv, rc) == IF rc # 0 THEN rc ELSE rv

\* main, lines 191-192: a nonzero result of run_dfixxer sets retval to 1.
main_retval(rv, rc) == IF rc # 0 THEN 1 ELSE rv

ProbeOutcomes == {"ok", "nonzero", "notfound", "oserror"}

\* A plausible slip: no early return after a successful probe.
probe_next_no_shortcut(out) ==
    IF out \in {"ok", "nonzero", "notfound"} THEN "mkdir" ELSE "crashed"

\* A plausible slip: the probe is tried again when it exits nonzero.
probe_next_retry(out) ==
    CASE out = "ok" -> "resolved"
      [] out = "nonzero" -> "probe"
      [] out = "notfound" -> "mkdir"
      [] OTHER -> "crashed"

\* get_dfixxer_path, lines 136-144: where the probe's outcome leads.  Exit 0
\* returns "dfixxer"; FileNotFoundError and CalledProcessError are passed
\* over; any other error of subprocess.run (PermissionError, ...) is not
\* caught here, nor in run_dfixxer (line 157), nor in main.
probe_next(out) ==
    CASE out = "ok" -> "resolved"
      [] out \in {"nonzero", "notfound"} -> "mkdir"
      [] OTHER -> "crashed"

\* A plausible slip: the cached file is never trusted.
cache_hit_never(bin) == FALSE

\* A plausible slip: only a finished, executable file counts as a hit.
cache_hit_if_executable(bin) == bin = "exec"

\* download_dfixxer, line 99: binary_path.exists().
cache_hit(bin) == bin # "absent"

\* What subprocess.run of the binary can end in: an exit code, or an error
\* raised on launch.
RunOutcomes == {"exit0", "exit1", "exit2", "oserror"}

\* run_dfixxer, lines 169-180: the binary's exit code as it is; 1 for an
\* exception.
run_result(out) ==
    CASE out = "exit0" -> 0
      [] out = "exit1" -> 1
      [] out = "exit2" -> 2
      [] OTHER -> 1

CacheNow == [dir |-> cacheDir, bin |-> binFile, zips |-> archives]

PutArchive(name, content) ==
    [n \in (DOMAIN archives) \cup {name} |->
        IF n = name THEN content ELSE archives[n]]

DropArchive(name) ==
    [n \in (DOMAIN archives) \ {name} |-> archives[n]]

\* platform_name, arch = get_platform_info()  (line 95)
host_platform == get_platform_info(platform_system)[1]
host_arch == get_platform_info(platform_system)[2]

----------------------------------------------------------------------------
\* How a call ends.

\* get_dfixxer_path returns `path` to run_dfixxer (lines 142, 149).
Resolved(p, path) ==
    /\ dfixxer_path' = [dfixxer_path EXCEPT ![p] = path]
    /\ paths' = [paths EXCEPT ![p] = Append(@, path)]
    /\ pc' = [pc EXCEPT ![p] = "resolved"]

\* download_dfixxer raises RuntimeError; get_dfixxer_path prints it and
\* returns None (lines 150-152).
ResolutionFailed(p) == Resolved(p, None)

\* run_dfixxer returns rc to main, which folds it into retval (191-192).
Returns(p, rc) ==
    /\ results' = [results EXCEPT ![p] = Append(@, rc)]
    /\ retval' = [retval EXCEPT ![p] = main_retval(@, rc)]
    /\ pc' = [pc EXCEPT ![p] = "main"]

----------------------------------------------------------------------------
\* The steps of one invocation p.

\* main, lines 189-194: the for loop takes the next filename and calls
\* run_dfixxer, which calls get_dfixxer_path; or the loop is over.
MainLoop(p) ==
    /\ pc[p] = "main"
    /\ IF idx[p] < Len(files[p])
       THEN /\ idx' = [idx EXCEPT ![p] = @ + 1]
            /\ attempted' = [attempted EXCEPT ![p] = Append(@, files[p][idx[p] + 1])]
            /\ pc' = [pc EXCEPT ![p] = "probe"]
            /\ dfixxer_path' = [dfixxer_path EXCEPT ![p] = None]
            /\ probe_rc' = [probe_rc EXCEPT ![p] = "none"]
            /\ asset' = [asset EXCEPT ![p] = NoAsset]
            /\ callNet' = [callNet EXCEPT ![p] = 0]
            /\ cacheTouched' = [cacheTouched EXCEPT ![p] = FALSE]
            /\ cacheAtCall' = [cacheAtCall EXCEPT ![p] = CacheNow]
       ELSE /\ pc' = [pc EXCEPT ![p] = "returned"]
            /\ UNCHANGED <<idx, attempted, dfixxer_path, probe_rc, asset,
                           callNet, cacheTouched, cacheAtCall>>
    /\ UNCHANGED <<served, env, assetVars>>
    /\ UNCHANGED <<files, retval, results, paths, probes, fetches, downloads,
                   platform_system, cacheDir, binFile, archives>>

\* get_dfixxer_path, lines 136-144: subprocess.run(["dfixxer", "--version"]).
Probe(p) ==
    /\ pc[p] = "probe"
    /\ \E out \in env.probe :
        /\ probes' = [probes EXCEPT ![p] = @ + 1]
        /\ probe_rc' = [probe_rc EXCEPT ![p] = out]
        /\ IF probe_next(out) = "resolved"
           THEN Resolved(p, <<"dfixxer">>)
           ELSE /\ pc' = [pc EXCEPT ![p] = probe_next(out)]
                /\ UNCHANGED <<dfixxer_path, paths>>
    /\ UNCHANGED <<served, env, assetVars>>
    /\ UNCHANGED <<files, idx, retval, results, attempted, asset, fetches,
                   downloads, callNet, cacheTouched, cacheAtCall,
                   platform_system, cacheDir, binFile, archives>>

\* get_cache_dir, lines 21-23, called at line 94 outside every try block that
\* catches OSError: a failing mkdir ends the run.
GetCacheDir(p) ==
    /\ pc[p] = "mkdir"
    /\ cacheTouched' = [cacheTouched EXCEPT ![p] = TRUE]
    /\ IF cacheDir
       THEN /\ pc' = [pc EXCEPT ![p] = "platform"]
            /\ UNCHANGED cacheDir
       ELSE \E ok \in BOOLEAN :
              IF ok
              THEN /\ cacheDir' = TRUE
                   /\ pc' = [pc EXCEPT ![p] = "platform"]
              ELSE /\ pc' = [pc EXCEPT ![p] = "crashed"]
                   /\ UNCHANGED cacheDir
    /\ UNCHANGED <<served, env, assetVars>>
    /\ UNCHANGED <<files, idx, retval, results, attempted, paths, dfixxer_path,
                   probe_rc, asset, probes, fetches, downloads, callNet,
                   cacheAtCall, platform_system, binFile, archives>>

\* get_platform_info, lines 28-38, called at line 95.
GetPlatformInfo(p) ==
    /\ pc[p] = "platform"
    /\ IF platform_system \in SupportedSystems
       THEN /\ pc' = [pc EXCEPT ![p] = "exists"]
            /\ UNCHANGED <<dfixxer_path, paths>>
       ELSE ResolutionFailed(p)
    /\ UNCHANGED <<served, env, assetVars>>
    /\ UNCHANGED <<files, idx, retval, results, attempted, probe_rc, asset,
                   probes, fetches, downloads, callNet, cacheTouched,
                   cacheAtCall, platform_system, cacheDir, binFile, archives>>

\* download_dfixxer, lines 96-100.
Exists(p) ==
    /\ pc[p] = "exists"
    /\ IF cache_hit(binFile)
       THEN Resolved(p, binary_path(host_platform))
       ELSE /\ pc' = [pc EXCEPT ![p] = "fetch"]
            /\ UNCHANGED <<dfixxer_path, paths>>
    /\ UNCHANGED <<served, env, assetVars>>
    /\ UNCHANGED <<files, idx, retval, results, attempted, probe_rc, asset,
                   probes, fetches, downloads, callNet, cacheTouched,
                   cacheAtCall, platform_system, cacheDir, binFile, archives>>

\* download_dfixxer, lines 105-114: fetch the release, pick the asset.
Fetch(p) ==
    /\ pc[p] = "fetch"
    /\ callNet' = [callNet EXCEPT ![p] = @ + 1]
    /\ fetches' = [fetches EXCEPT ![p] = @ + 1]
    /\ \/ /\ ResolutionFailed(p)
          /\ UNCHANGED asset
       \/ LET a == find_download_asset(served.release, host_platform, host_arch) IN
            /\ asset' = [asset EXCEPT ![p] = a]
            /\ IF a.download_url = None
               THEN ResolutionFailed(p)
               ELSE /\ pc' = [pc EXCEPT ![p] = IF a.is_zip THEN "dl_zip" ELSE "dl_bin"]
                    /\ UNCHANGED <<dfixxer_path, paths>>
    /\ UNCHANGED <<served, env, assetVars>>
    /\ UNCHANGED <<files, idx, retval, results, attempted, probe_rc, probes,
                   downloads, cacheTouched, cacheAtCall, platform_system,
                   cacheDir, binFile, archives>>

\* download_dfixxer, lines 120-121: urlretrieve(download_url, archive_path).
DownloadZip(p) ==
    /\ pc[p] = "dl_zip"
    /\ callNet' = [callNet EXCEPT ![p] = @ + 1]
    /\ downloads' = [downloads EXCEPT ![p] = @ + 1]
    /\ \/ /\ ResolutionFailed(p)
          /\ UNCHANGED archives
       \/ /\ ResolutionFailed(p)
          /\ archives' = PutArchive(asset[p].asset_name, Truncated)
       \/ /\ archives' = PutArchive(asset[p].asset_name, served.archive)
            /\ pc' = [pc EXCEPT ![p] = "extract"]
            /\ UNCHANGED <<dfixxer_path, paths>>
    /\ UNCHANGED <<served, env, assetVars>>
    /\ UNCHANGED <<files, idx, retval, results, attempted, probe_rc, asset,
                   probes, fetches, cacheTouched, cacheAtCall, platform_system,
                   cacheDir, binFile>>

\* extract_binary_from_zip, lines 78-88: open the archive, find the entry,
\* open the output file for writing.
Extract(p) ==
    /\ pc[p] = "extract"
    /\ LET name == asset[p].asset_name IN
       IF \/ name \notin DOMAIN archives
          \/ ~archives[name].valid
          \/ zip_matches(archives[name].infolist, get_binary_name(host_platform)) = << >>
       THEN /\ ResolutionFailed(p)
            /\ UNCHANGED binFile
       ELSE /\ binFile' = "partial"
            /\ pc' = [pc EXCEPT ![p] = "extract_copy"]
            /\ UNCHANGED <<dfixxer_path, paths>>
    /\ UNCHANGED <<served, env, assetVars>>
    /\ UNCHANGED <<files, idx, retval, results, attempted, probe_rc, asset,
                   probes, fetches, downloads, callNet, cacheTouched,
                   cacheAtCall, platform_system, cacheDir, archives>>

\* extract_binary_from_zip, line 89: shutil.copyfileobj(source, target).
ExtractCopy(p) ==
    /\ pc[p] = "extract_copy"
    /\ \/ /\ binFile' = "complete"
          /\ pc' = [pc EXCEPT ![p] = "unlink"]
          /\ UNCHANGED <<dfixxer_path, paths>>
       \/ /\ ResolutionFailed(p)
          /\ UNCHANGED binFile
    /\ UNCHANGED <<served, env, assetVars>>
    /\ UNCHANGED <<files, idx, retval, results, attempted, probe_rc, asset,
                   probes, fetches, downloads, callNet, cacheTouched,
                   cacheAtCall, platform_system, cacheDir, archives>>

\* download_dfixxer, line 123: archive_path.unlink(missing_ok=True).
Unlink(p) ==
    /\ pc[p] = "unlink"
    /\ archives' = DropArchive(asset[p].asset_name)
    /\ pc' = [pc EXCEPT ![p] = "chmod"]
    /\ UNCHANGED <<served, env, assetVars>>
    /\ UNCHANGED <<files, idx, retval, results, attempted, paths, dfixxer_path,
                   probe_rc, asset, probes, fetches, downloads, callNet,
                   cacheTouched, cacheAtCall, platform_system, cacheDir,
                   binFile>>

\* download_dfixxer, line 125: urlretrieve(download_url, binary_path) opens
\* the URL and then the target file.
DownloadBinary(p) ==
    /\ pc[p] = "dl_bin"
    /\ callNet' = [callNet EXCEPT ![p] = @ + 1]
    /\ downloads' = [downloads EXCEPT ![p] = @ + 1]
    /\ \/ /\ ResolutionFailed(p)
          /\ UNCHANGED binFile
       \/ /\ binFile' = "partial"
          /\ pc' = [pc EXCEPT ![p] = "dl_bin_write"]
          /\ UNCHANGED <<dfixxer_path, paths>>
    /\ UNCHANGED <<served, env, assetVars>>
    /\ UNCHANGED <<files, idx, retval, results, attempted, probe_rc, asset,
                   probes, fetches, cacheTouched, cacheAtCall, platform_system,
                   cacheDir, archives>>

\* urlretrieve's block loop: the rest of the file arrives, or the transfer
\* breaks off (ContentTooShortError, connection reset).
DownloadBinaryWrite(p) ==
    /\ pc[p] = "dl_bin_write"
    /\ \/ /\ binFile' = "complete"
          /\ pc' = [pc EXCEPT ![p] = "chmod"]
          /\ UNCHANGED <<dfixxer_path, paths>>
       \/ /\ ResolutionFailed(p)
          /\ UNCHANGED binFile
    /\ UNCHANGED <<served, env, assetVars>>
    /\ UNCHANGED <<files, idx, retval, results, attempted, probe_rc, asset,
                   probes, fetches, downloads, callNet, cacheTouched,
                   cacheAtCall, platform_system, cacheDir, archives>>

\* download_dfixxer, lines 126-128: chmod(0o755) and return binary_path.
Chmod(p) ==
    /\ pc[p] = "chmod"
    /\ \/ /\ binFile' = "exec"
          /\ Resolved(p, binary_path(host_platform))
       \/ /\ ResolutionFailed(p)
          /\ UNCHANGED binFile
    /\ UNCHANGED <<served, env, assetVars>>
    /\ UNCHANGED <<files, idx, retval, results, attempted, probe_rc, asset,
                   probes, fetches, downloads, callNet, cacheTouched,
                   cacheAtCall, platform_system, cacheDir, archives>>

\* run_dfixxer, lines 158-159.
CheckPath(p) ==
    /\ pc[p] = "resolved"
    /\ IF dfixxer_path[p] = None
       THEN Returns(p, 1)
       ELSE /\ pc' = [pc EXCEPT ![p] = "run"]
            /\ UNCHANGED <<results, retval>>
    /\ UNCHANGED <<served, env, assetVars>>
    /\ UNCHANGED <<files, idx, attempted, paths, dfixxer_path, probe_rc, asset,
                   probes, fetches, downloads, callNet, cacheTouched,
                   cacheAtCall, platform_system, cacheDir, binFile, archives>>

\* run_dfixxer, lines 161-180: subprocess.run([path, "update", filename]);
\* the exit code is returned as it is, a launch error gives 1.
RunBinary(p) ==
    /\ pc[p] = "run"
    /\ \E out \in env.run : Returns(p, run_result(out))
    /\ UNCHANGED <<served, env, assetVars>>
    /\ UNCHANGED <<files, idx, attempted, paths, dfixxer_path, probe_rc, asset,
                   probes, fetches, downloads, callNet, cacheTouched,
                   cacheAtCall, platform_system, cacheDir, binFile, archives>>

Next ==
    \/ \E p \in Procs : MainLoop(p)
    \/ \E p \in Procs : Probe(p)
    \/ \E p \in Procs : GetCacheDir(p)
    \/ \E p \in Procs : GetPlatformInfo(p)
    \/ \E p \in Procs : Exists(p)
    \/ \E p \in Procs : Fetch(p)
    \/ \E p \in Procs : DownloadZip(p)
    \/ \E p \in Procs : Extract(p)
    \/ \E p \in Procs : ExtractCopy(p)
    \/ \E p \in Procs : Unlink(p)
    \/ \E p \in Procs : DownloadBinary(p)
    \/ \E p \in Procs : DownloadBinaryWrite(p)
    \/ \E p \in Procs : Chmod(p)
    \/ \E p \in Procs : CheckPath(p)
    \/ \E p \in Procs : RunBinary(p)

----------------------------------------------------------------------------
\* Initial states.

Min(a, b) == IF a <= b THEN a ELSE b

\* args.filenames: none, one or several files.
FileLists(n) == { SubSeq(AllFiles, 1, k) : k \in 0..Min(n, Len(AllFiles)) }

ProcInit(running) ==
    /\ pc = [p \in Procs |-> IF p \in running THEN "main" ELSE "idle"]
    /\ idx = [p \in Procs |-> 0]
    /\ retval = [p \in Procs |-> 0]
    /\ results = [p \in Procs |-> << >>]
    /\ attempted = [p \in Procs |-> << >>]
    /\ paths = [p \in Procs |-> << >>]
    /\ dfixxer_path = [p \in Procs |-> None]
    /\ probe_rc = [p \in Procs |-> "none"]
    /\ asset = [p \in Procs |-> NoAsset]
    /\ probes = [p \in Procs |-> 0]
    /\ fetches = [p \in Procs |-> 0]
    /\ downloads = [p \in Procs |-> 0]
    /\ callNet = [p \in Procs |-> 0]
    /\ cacheTouched = [p \in Procs |-> FALSE]
    /\ archives = << >>
    /\ cacheAtCall = [p \in Procs |-> CacheNow]

AssetIdle ==
    /\ apc = "off"
    /\ release_data = [assets |-> << >>]
    /\ fda_platform = "linux"
    /\ fda_result = NoAsset

\* One invocation of the hook.  The cache directory is missing, empty, or
\* holds the binary a former run installed (supported platforms only: there
\* is no binary name on any other).
Init ==
    /\ platform_system \in Systems
    /\ files \in [Procs -> FileLists(MaxFiles)]
    /\ files[2] = << >>
    /\ cacheDir \in BOOLEAN
    /\ binFile \in {"absent", "exec"}
    /\ binFile = "exec" => cacheDir /\ platform_system \in SupportedSystems
    /\ served \in [release : Releases(host_platform), archive : ZipContents]
    /\ env = [probe |-> ProbeOutcomes, run |-> RunOutcomes]
    /\ ProcInit({1})
    /\ AssetIdle

Spec == Init /\ [][Next]_vars

\* Two invocations of the hook started against the same empty cache.
InitRace ==
    /\ platform_system = "linux"
    /\ files \in [Procs -> {s \in FileLists(MaxRaceFiles) : Len(s) >= 1}]
    /\ Len(files[1]) = 1
    /\ cacheDir \in BOOLEAN
    /\ binFile = "absent"
    /\ served \in [release : Releases(host_platform), archive : ZipContents]
    /\ env = [probe |-> {"notfound"}, run |-> {"exit0", "exit1"}]
    /\ ProcInit({1, 2})
    /\ AssetIdle

SpecRace == InitRace /\ [][Next]_vars

----------------------------------------------------------------------------
\* find_download_asset on its own: every platform name get_platform_info can
\* return, every asset list of up to MaxAssets assets of the pool.

InitAsset ==
    /\ fda_platform \in {"windows", "macos", "linux"}
    /\ release_data \in [assets : SeqsUpTo(AssetPool(fda_platform), MaxAssets)]
    /\ apc = "todo"
    /\ fda_result = NoAsset
    /\ platform_system = "linux"
    /\ files = [p \in Procs |-> << >>]
    /\ cacheDir = FALSE
    /\ binFile = "absent"
    /\ served = [release |-> [assets |-> << >>], archive |-> ZipFile(<< >>)]
    /\ env = [probe |-> ProbeOutcomes, run |-> RunOutcomes]
    /\ ProcInit({})

\* download_dfixxer, line 111.
FindAsset ==
    /\ apc = "todo"
    /\ fda_result' = find_download_asset(release_data, fda_platform, "x86_64")
    /\ apc' = "done"
    /\ UNCHANGED <<release_data, fda_platform>>
    /\ UNCHANGED procVars

NextAsset == FindAsset

SpecAsset == InitAsset /\ [][NextAsset]_vars

----------------------------------------------------------------------------
\* Claims.

AllZero(rs) == \A i \in 1..Len(rs) : rs[i] = 0

\* C1: main returns 0 exactly when run_dfixxer returned 0 for every file and
\* 1 otherwise, never another value, whatever nonzero codes the files gave;
\* when main returns, every file has a result.
C1_ExitCode ==
    \A p \in Procs :
        /\ retval[p] = IF AllZero(results[p]) THEN 0 ELSE 1
        /\ pc[p] = "returned" => Len(results[p]) = Len(files[p])

C1_Witness ==
    /\ pc[1] = "returned"
    /\ results[1] = <<2, 0>>
    /\ retval[1] = 1

\* C2: when the run of main is over, every input file was attempted exactly
\* once, in input order; no failure of an earlier file skips a later one.
C2_EveryFileAttempted ==
    \A p \in Procs :
        pc[p] \in {"returned", "crashed"} => attempted[p] = files[p]

\* C3: when the probe exits zero, get_dfixxer_path returns "dfixxer" and the
\* call never reaches the cache directory, makes no network call and leaves
\* the cache as it was.
C3_ProbeShortCircuits ==
    \A p \in Procs :
        (pc[p] = "resolved" /\ probe_rc[p] = "ok") =>
            /\ dfixxer_path[p] = <<"dfixxer">>
            /\ ~cacheTouched[p]
            /\ callNet[p] = 0
            /\ CacheNow = cacheAtCall[p]

C3_Witness ==
    /\ pc[1] = "resolved"
    /\ probe_rc[1] = "ok"
    /\ dfixxer_path[1] = <<"dfixxer">>
    /\ ~cacheDir

IsCachePath(path) == path # None /\ path # <<"dfixxer">>

\* C4: when download_dfixxer is called and the binary file already exists in
\* the cache directory, it returns the cache path without any network call;
\* calls that return a cache path return the same path.
C4_CacheHit ==
    \A p \in Procs :
        /\ (/\ pc[p] = "resolved"
            /\ probe_rc[p] \in {"nonzero", "notfound"}
            /\ cacheAtCall[p].bin # "absent") =>
                /\ dfixxer_path[p] = binary_path(host_platform)
                /\ callNet[p] = 0
        /\ \A i, j \in 1..Len(paths[p]) :
              IsCachePath(paths[p][i]) /\ IsCachePath(paths[p][j])
                  => paths[p][i] = paths[p][j]

C4_Witness ==
    /\ pc[1] = "resolved"
    /\ idx[1] = 2
    /\ probe_rc[1] = "notfound"
    /\ cacheAtCall[1].bin = "exec"
    /\ paths[1] = <<binary_path(host_platform), binary_path(host_platform)>>
    /\ fetches[1] = 0
    /\ downloads[1] = 0

\* The five rules of the asset preference, in order.
ExactBinaryName(pn) ==
    IF pn = "windows" THEN <<"dfixxer-", pn, "-", "x86_64", ".exe">>
    ELSE <<"dfixxer-", pn, "-", "x86_64">>

TaggedBinaryName(pn) ==
    IF pn = "windows" THEN <<"dfixxer-", pn, "-", "x86_64", "-", "v0.9.2", ".exe">>
    ELSE <<"dfixxer-", pn, "-", "x86_64", "-", "v0.9.2">>

IsZipName(name) == name # << >> /\ name[Len(name)] = ".zip"

RuleHolds(k, name, pn) ==
    CASE k = 1 -> name = ExactBinaryName(pn)
      [] k = 2 -> name = TaggedBinaryName(pn)
      [] k = 3 -> name = <<"dfixxer-", pn, "-", "x86_64", "-", "v0.9.2", ".zip">>
      [] k = 4 -> name = <<"dfixxer-", pn, "-", "x86_64", ".zip">>
      [] OTHER -> /\ Len(name) >= 4
                  /\ SubSeq(name, 1, 4) = <<"dfixxer-", pn, "-", "x86_64">>
                  /\ IsZipName(name)

Least(S) == CHOOSE x \in S : \A y \in S : x <= y

\* C5: find_download_asset returns the asset matched by the earliest of the
\* rules (a)-(e), the first such asset in list order; list position never
\* overrides rule order; the archive flag is true exactly when the chosen
\* name ends in .zip; nothing is returned when no rule matches.
C5_EarliestRuleWins ==
    apc = "done" =>
        LET A == release_data.assets
            Matched(k) == {i \in 1..Len(A) : RuleHolds(k, A[i].name, fda_platform)}
            Rules == {k \in 1..5 : Matched(k) # {}}
        IN  IF Rules = {}
            THEN fda_result = NoAsset
            ELSE LET i == Least(Matched(Least(Rules))) IN
                 /\ fda_result.download_url = A[i].browser_download_url
                 /\ fda_result.asset_name = A[i].name
                 /\ fda_result.is_zip = IsZipName(A[i].name)
                 /\ Matched(1) # {} =>
                        /\ fda_result.asset_name = ExactBinaryName(fda_platform)
                        /\ ~fda_result.is_zip

C5_Witness ==
    /\ apc = "done"
    /\ Len(release_data.assets) = 3
    /\ IsZipName(release_data.assets[1].name)
    /\ RuleHolds(3, release_data.assets[1].name, fda_platform)
    /\ release_data.assets[3].name = ExactBinaryName(fda_platform)
    /\ fda_result.asset_name = ExactBinaryName(fda_platform)
    /\ ~fda_result.is_zip

\* C6: no resolution failure ends the run with an uncaught error.
C6_NoUncaughtError == \A p \in Procs : pc[p] # "crashed"

\* C7: a .zip archive is in the cache directory only while an extraction is
\* in progress; once download_dfixxer has returned or failed there is none.
C7_NoArchiveLeft ==
    pc[1] \notin {"extract", "extract_copy", "unlink"} => DOMAIN archives = {}

\* C8: the invocations are not synchronised: the check of line 99 looks at
\* nothing but whether the file exists at that instant, whatever the other
\* invocation is doing; it is a hit exactly when a file is there, and a miss
\* (going on to download) exactly when none is.
C8_Unsynchronised ==
    [][\A p \in Procs :
          (pc[p] = "exists" /\ pc'[p] # "exists") =>
              /\ binFile # "absent" =>
                    pc'[p] = "resolved" /\ dfixxer_path'[p] = binary_path(host_platform)
              /\ binFile = "absent" => pc'[p] = "fetch"]_vars

\* Both invocations have downloaded, and one has just taken as a cache hit
\* the file the other is still writing (or has not yet made executable).
C8_Witness ==
    \E p, q \in Procs :
        /\ p # q
        /\ downloads[p] >= 1
        /\ downloads[q] >= 1
        /\ pc[p] = "resolved"
        /\ callNet[p] = 0
        /\ dfixxer_path[p] = binary_path(host_platform)
        /\ pc[q] \in {"dl_bin_write", "extract_copy", "unlink", "chmod"}
        /\ binFile # "exec"

\* C9 as stated: the probe and the metadata fetch happen at most once per run.
C9_ResolvedOncePerRun ==
    \A p \in Procs : probes[p] <= 1 /\ fetches[p] <= 1

\* C9 amended: the binary is resolved once per input file: one probe for
\* every attempted file, at most one metadata fetch for every attempted file,
\* also when resolution fails.
C9_ResolvedOncePerFile ==
    \A p \in Procs :
        /\ probes[p] = Len(attempted[p]) - (IF pc[p] = "probe" THEN 1 ELSE 0)
        /\ fetches[p] <= probes[p]
        /\ pc[p] = "returned" => probes[p] = Len(files[p])

C9_Witness ==
    /\ pc[1] = "returned"
    /\ Len(files[1]) = 2
    /\ probes[1] = 2
    /\ fetches[1] = 2
    /\ paths[1] = <<None, None>>

\* C10: outside a download in progress a file is at the cache binary path
\* only if it was written to the end and marked executable, and a cache path
\* handed to run_dfixxer is that of such a file.
C10_OnlyFinishedBinary ==
    /\ pc[1] \notin {"dl_bin_write", "extract_copy", "unlink", "chmod"}
           => binFile \in {"absent", "exec"}
    /\ (pc[1] \in {"resolved", "run"} /\ IsCachePath(dfixxer_path[1]))
           => binFile = "exec"

====
